---- MODULE Spec2Model ----
(***************************************************************************)
(* TuneCent backend: the deterministic analytics and scoring engine        *)
(* (package mockdata and the procedure calculate_risk_score, embedded in   *)
(* deploy.sh), the reinvestment recommender, and the distribution, music   *)
(* registration and notification services (internal/services).            *)
(*                                                                         *)
(* Numbers.  Go float64 values are modelled as exact rationals.  A time    *)
(* span is an integer number of ticks, TicksPerDay ticks to the day, so    *)
(* "daysSince" is ticks / TicksPerDay.  Percentages and scores that the    *)
(* code rounds to two decimals are carried in hundredths (25000 = 250.00). *)
(* math.Round rounds half away from zero; RoundDiv does the same.  The     *)
(* model differs from IEEE arithmetic only within one ulp of a rounding    *)
(* tie.                                                                    *)
(***************************************************************************)
EXTENDS Integers, Sequences, FiniteSets, TLC

VARIABLES
    call,        \* the last call of a pure mockdata function: arguments and result
    now,         \* the wall clock read by time.Since / time.Now, in ticks
    music,       \* table music_metadata
    run1, run2,  \* the last two completed GeneratePlatformStats runs (run2 the latest)
    campaigns,   \* table campaigns
    royalties,   \* table royalty_distributions
    suggestions, \* table reinvestment_suggestions
    resp,        \* the last response of ReinvestmentService.GetSuggestions
    distSubmissions,       \* table distribution_submissions, in order of insertion
    platformDistributions, \* table platform_distributions, in order of insertion
    analytics,             \* table analytics
    notifications,         \* table notifications
    notificationSeq,       \* the auto-increment counter of notifications.id
    preferences,           \* table notification_preferences
    procs,                 \* the service calls in flight, by goroutine
    out                    \* the last completed notification service call

\* the tables and calls of the distribution, music and notification services
svcVars == <<distSubmissions, platformDistributions, analytics, notifications,
             notificationSeq, preferences, procs, out>>

vars == <<call, now, music, run1, run2, campaigns, royalties, suggestions, resp, svcVars>>

-----------------------------------------------------------------------------
(* Bounds and sample domains *)

TicksPerDay == 2

Days(n) == n * TicksPerDay

\* ages handed to the pure functions, in ticks: negative, zero, half a day,
\* one day, ..., a thousand days
AgeSamples == {Days(-3), 0, 1, Days(1), Days(10), Days(29), Days(30), Days(40), Days(149),
               Days(150), Days(151), Days(365), Days(1000)}

CountSamples == {0, 1, 500, 10000, 20000, 40000, 80000, 5000000}

\* funding ratio in hundredths of a percent: 0, 33.33, 75, 100, 150, 400, 10000 percent
FundingSamples == {0, 3333, 7500, 10000, 15000, 40000, 1000000}

\* uint8 risk scores
RiskSamples == {0, 5, 10, 50, 60, 69, 70, 100, 255}

\* viral scores in hundredths of a point, some outside [0, 100]
ScoreSamples == {-500, 0, 5000, 5999, 6000, 6001, 7500, 9000, 9499, 9500, 9501, 9999,
                 10000, 10300, 11000}

\* totalSongs, a Go int
PopulationSamples == {-7, 0, 4, 5, 9, 10, 44, 45, 100, 1000}

\* funding ratio handed to GenerateRiskScore, a negative one included
RiskFundingSamples == FundingSamples \cup {-5000, 5000, 8200}

\* contributorCount and creatorReputation, Go uint
ContributorSamples == {0, 1, 2, 25, 49, 50, 51, 1000}

ReputationSamples == {0, 1, 5, 9, 10, 11, 1000}

\* Listeners and Views of a PlatformStat, Go uint64
ListenerSamples == {0, 1, 4, 90, 100, 65000}

ViewSamples == {0, 9, 10, 25, 900, 2000000}

\* totalWorks, a Go uint
WorkSamples == {0, 4, 5, 9, 10, 19, 20, 49, 50, 1000}

\* totalEarningsEth in hundredths of an ETH, a negative amount included
EarningSamples == {-100, 0, 499, 500, 1999, 2000, 4999, 5000, 9999, 10000, 100000}

TokenIDs == {1, 2}

Addresses == {"0xA", "0xB"}

\* the wall clock runs from 0 to MaxNow ticks
MaxNow == 8

\* registration times, in ticks: before the clock starts, at its start, after it
RegisteredAtSamples == {Days(-2), 0, Days(1)}

\* registration times of a single GeneratePlatformStats call made when the
\* clock shows 0: a tick before and after it and long before it as well
OneShotRegisteredAtSamples == RegisteredAtSamples \cup {-1, 1, Days(-30), Days(-365)}

\* seconds the clock of RegisterMusic runs through
MaxSeconds == 2

\* notifications the model lets the services create
MaxNotifications == 3

\* rows the model lets table reinvestment_suggestions grow to
MaxSuggestions == 2

-----------------------------------------------------------------------------
(* Arithmetic helpers *)

Min(a, b) == IF a < b THEN a ELSE b

Max(a, b) == IF a > b THEN a ELSE b

\* math.Round(n / d) for d > 0: nearest integer, halves away from zero
RoundDiv(n, d) ==
    LET a == IF n >= 0 THEN n ELSE -n
        q == (a \div d) + (IF 2 * (a % d) >= d THEN 1 ELSE 0)
    IN  IF n >= 0 THEN q ELSE -q

\* floor(x * g / d) for x, g >= 0 and d > 0 without forming x * g
MulDiv(x, g, d) == (x \div d) * g + ((x % d) * g) \div d

-----------------------------------------------------------------------------
(* GenerateViralScore *)

\* if daysSince < 1 { daysSince = 1 }
ViralDaysSince(ticks) == IF ticks < TicksPerDay THEN TicksPerDay ELSE ticks

\* The four sub-scores, each in units of 1 / ViralDen(d) hundredths, where d
\* is the clamped age in ticks.
ViralDen(d) == 6 * d * TicksPerDay

\* playScore := math.Min(playsPerDay/1000*30, 30), playsPerDay = playCount * TicksPerDay / d
PlayScore(playCount, d) ==
    IF playCount * TicksPerDay >= 1000 * d THEN 3000 * ViralDen(d)
    ELSE 18 * playCount * TicksPerDay * TicksPerDay

\* viewScore := math.Min(viewsPerDay/2000*30, 30)
ViewScore(viewCount, d) ==
    IF viewCount * TicksPerDay >= 2000 * d THEN 3000 * ViralDen(d)
    ELSE 9 * viewCount * TicksPerDay * TicksPerDay

\* listenerScore := math.Min(listenersPerDay/500*20, 20)
ListenerScore(listenerCount, d) ==
    IF listenerCount * TicksPerDay >= 500 * d THEN 2000 * ViralDen(d)
    ELSE 24 * listenerCount * TicksPerDay * TicksPerDay

\* timeBonus := math.Min(daysSince/30*20, 20)
TimeBonusInverted(d) ==
    IF 30 * TicksPerDay >= d THEN 2000 * ViralDen(d)
    ELSE 2000 * 30 * TicksPerDay * 6 * TicksPerDay

TimeBonus(d) ==
    IF d >= 30 * TicksPerDay THEN 2000 * ViralDen(d)
    ELSE 400 * d * d

\* the result, in hundredths of a point
GenerateViralScoreRawAgeBonus(playCount, viewCount, listenerCount, daysSinceTicks) ==
    LET d == ViralDaysSince(daysSinceTicks)
        bonus == IF daysSinceTicks >= 30 * TicksPerDay THEN 2000 * ViralDen(d)
                 ELSE 400 * daysSinceTicks * d
        sum == PlayScore(playCount, d) + ViewScore(viewCount, d)
               + ListenerScore(listenerCount, d) + bonus
        capped == IF sum > 10000 * ViralDen(d) THEN 10000 * ViralDen(d) ELSE sum
    IN  RoundDiv(capped, ViralDen(d))

GenerateViralScore(playCount, viewCount, listenerCount, daysSinceTicks) ==
    LET d == ViralDaysSince(daysSinceTicks)
        sum == PlayScore(playCount, d) + ViewScore(viewCount, d)
               + ListenerScore(listenerCount, d) + TimeBonus(d)
        capped == IF sum > 10000 * ViralDen(d) THEN 10000 * ViralDen(d) ELSE sum
    IN  RoundDiv(capped, ViralDen(d))

-----------------------------------------------------------------------------
(* GenerateROI *)

\* all terms in units of 1 / ROIDen hundredths of a percent
ROIDen == 6 * TicksPerDay

\* baseROI := 150.0
BaseROI == 15000 * ROIDen

\* fundingBonus := (fundingPercentage / 100) * 50
FundingBonusDouble(funding100) == 6 * TicksPerDay * funding100

FundingBonus(funding100) == 3 * TicksPerDay * funding100

\* riskPenalty := float64(riskScore) * 0.5
RiskPenaltyFull(riskScore) == 100 * riskScore * ROIDen

RiskPenalty(riskScore) == 50 * riskScore * ROIDen

\* timeFactor := math.Min(daysSinceCreation/30, 5) * 10
TimeFactorUncapped(ticks) == 200 * ticks

TimeFactorCapSix(ticks) ==
    IF ticks >= 180 * TicksPerDay THEN 6000 * ROIDen ELSE 200 * ticks

TimeFactor(ticks) ==
    IF ticks >= 150 * TicksPerDay THEN 5000 * ROIDen ELSE 200 * ticks

\* if estimatedROI < 80 { 80 }; if estimatedROI > 300 { 300 }
ClampROIFloorOnly(x) == IF x < 8000 * ROIDen THEN 8000 * ROIDen ELSE x

ClampROI(x) ==
    IF x < 8000 * ROIDen THEN 8000 * ROIDen
    ELSE IF x > 30000 * ROIDen THEN 30000 * ROIDen
    ELSE x

\* the result, in hundredths of a percent
GenerateROI(funding100, riskScore, ticks) ==
    LET estimatedROI == BaseROI + FundingBonus(funding100) - RiskPenalty(riskScore)
                        + TimeFactor(ticks)
    IN  RoundDiv(ClampROI(estimatedROI), ROIDen)

-----------------------------------------------------------------------------
(* GenerateTrendingRank *)

\* Go's int(x / d) and integer n / d for d > 0: the quotient truncated toward zero
IntDiv(n, d) == IF n >= 0 THEN n \div d ELSE -((-n) \div d)

\* trendingThreshold := 60.0
TrendingThreshold == 6000

\* rank := int((100 - viralScore) / 5) + 1; if rank < 1 { rank = 1 }
CandidateRankNoRaise(score100) == IntDiv(10000 - score100, 500) + 1

CandidateRankAscending(score100) ==
    LET rank == IntDiv(score100, 500) + 1
    IN  IF rank < 1 THEN 1 ELSE rank

CandidateRank(score100) ==
    LET rank == IntDiv(10000 - score100, 500) + 1
    IN  IF rank < 1 THEN 1 ELSE rank

GenerateTrendingRankGate50(score100, totalSongs) ==
    IF score100 >= 5000
    THEN IF CandidateRank(score100) > IntDiv(totalSongs, 5) THEN 0
         ELSE CandidateRank(score100)
    ELSE 0

GenerateTrendingRank(score100, totalSongs) ==
    IF score100 >= TrendingThreshold
    THEN IF CandidateRank(score100) > IntDiv(totalSongs, 5) THEN 0
         ELSE CandidateRank(score100)
    ELSE 0

-----------------------------------------------------------------------------
(* GenerateRiskScore *)

\* The risk is carried in thousandths of a point.  The exact value is
\* truncated by uint8(risk); float64 arithmetic can leave a value that is an
\* exact integer one ulp below it, and the truncation then yields one less.

\* risk -= math.Min(fundingPercentage, 100) * 0.4
FundingReductionFullWeight(funding100) == 10 * Min(funding100, 10000)

FundingReduction(funding100) == 4 * Min(funding100, 10000)

\* contributorScore := math.Min(float64(contributorCount)*2, 100); risk -= contributorScore * 0.3
ContributorReductionUncapped(contributorCount) == 300 * (contributorCount * 2)

ContributorReduction(contributorCount) == 300 * Min(contributorCount * 2, 100)

\* reputationScore := math.Min(float64(creatorReputation)*10, 100); risk -= reputationScore * 0.3
ReputationReduction(creatorReputation) == 300 * Min(creatorReputation * 10, 100)

\* if risk < 0 { risk = 0 }; if risk > 100 { risk = 100 }
ClampRiskFloorOnly(x) == IF x < 0 THEN 0 ELSE x

ClampRisk(x) == IF x < 0 THEN 0 ELSE IF x > 100000 THEN 100000 ELSE x

\* return uint8(risk)
GenerateRiskScore(funding100, contributorCount, creatorReputation) ==
    LET risk == 100000 - FundingReduction(funding100)
                - ContributorReduction(contributorCount)
                - ReputationReduction(creatorReputation)
    IN  ClampRisk(risk) \div 1000

-----------------------------------------------------------------------------
(* The stored procedure calculate_risk_score *)

\* v_funding_progress DECIMAL(10,2), in hundredths of a percent; amounts are
\* not negative
ProgressSamples == FundingSamples \cup {5000, 8200, 20000, 25000}

\* SET v_risk_score = 100 - LEAST(100, (v_funding_progress * 0.4) +
\* (LEAST(v_contributors * 2, 100) * 0.3) + (LEAST(v_creator_reputation * 10,
\* 100) * 0.3)), the terms in thousandths; the DECIMAL value is rounded to the
\* nearest integer when it is stored in the INT variable
calculate_risk_score(v_funding_progress, v_contributors, v_creator_reputation) ==
    LET reduction == 4 * v_funding_progress
                     + 300 * Min(v_contributors * 2, 100)
                     + 300 * Min(v_creator_reputation * 10, 100)
    IN  RoundDiv(100000 - Min(100000, reduction), 1000)

-----------------------------------------------------------------------------
(* GeneratePlatformStats *)

\* r := rand.New(rand.NewSource(seed)): math/rand is not part of the
\* repository; its generator is represented by a small linear congruential
\* generator whose state is a function of the seed alone.  r.Float64()
\* advances the state and yields a value k / 10 in [0, 1).
RandModulus == 101

RandMultiplier == 37

RandIncrement == 11

NewSource(seed) == seed % RandModulus

RECURSIVE RandState(_, _)
\* the generator state after i calls of r.Float64()
RandState(seed, i) ==
    IF i = 0 THEN NewSource(seed)
    ELSE (RandMultiplier * RandState(seed, i - 1) + RandIncrement) % RandModulus

\* the i-th r.Float64() of the stream, in tenths
Float64(seed, i) == RandState(seed, i) % 10

\* randomRange(r, min, max) = min + r.Float64()*(max-min), for the i-th draw;
\* every range of the generator is a multiple of 10, so the value is an integer
randomRange(seed, i, min, max) == min + Float64(seed, i) * ((max - min) \div 10)

\* math.Log10(n / m) in thousandths for n >= m > 0: interpolated linearly
\* between the integers of a decade
Log10Table == <<0, 301, 477, 602, 699, 778, 845, 903, 954, 1000>>

RECURSIVE Log10Milli(_, _)
Log10Milli(n, m) ==
    IF n >= 10 * m THEN 1000 + Log10Milli(n, 10 * m)
    ELSE LET k == n \div m
         IN  Log10Table[k] + ((Log10Table[k + 1] - Log10Table[k]) * (n - k * m)) \div m

\* daysSince := time.Since(registeredAt).Hours() / 24; if daysSince < 1 { daysSince = 1 }
StatsDaysSinceOnlyNonPositive(ticks) == IF ticks <= 0 THEN TicksPerDay ELSE ticks

StatsDaysSince(ticks) == IF ticks < TicksPerDay THEN TicksPerDay ELSE ticks

\* growthFactor := 1.0 + math.Log10(daysSince/7+1), in thousandths
GrowthFactorDecaying(d) ==
    1000 + Log10Milli(d + 7 * TicksPerDay, d)

GrowthFactor(d) == 1000 + Log10Milli(d + 7 * TicksPerDay, 7 * TicksPerDay)

\* uint64(base * multiplier * growthFactor), multiplier in tenths
ScaledCount(base, mult10, gf) == MulDiv(base * mult10, gf, 10000)

\* the body of GeneratePlatformStats from the seed on
PlatformStatsFrom(seed, ticksSince) ==
    LET growthFactor == GrowthFactor(StatsDaysSince(ticksSince))
        spotifyMultiplier == 10 + Float64(seed, 1) * 2
        tiktokMultiplier == 20 + Float64(seed, 2) * 3
        appleMultiplier == 6 + Float64(seed, 3)
        spotifyPlays == ScaledCount(randomRange(seed, 4, 5000, 50000), spotifyMultiplier,
                                    growthFactor)
        spotifyListeners == (spotifyPlays * 65) \div 100
        spotifyGrowth == randomRange(seed, 5, 100, 800)
        tiktokViews == ScaledCount(randomRange(seed, 6, 10000, 200000), tiktokMultiplier,
                                   growthFactor)
        tiktokUses == (randomRange(seed, 7, 50, 500) * tiktokMultiplier) \div 10
        tiktokGrowth == randomRange(seed, 8, 150, 1000)
        applePlays == ScaledCount(randomRange(seed, 9, 3000, 40000), appleMultiplier,
                                  growthFactor)
        appleListeners == (applePlays * 70) \div 100
        appleGrowth == randomRange(seed, 10, 50, 500)
    IN  [Spotify |-> [Plays |-> spotifyPlays, Listeners |-> spotifyListeners,
                      Growth |-> spotifyGrowth],
         TikTok |-> [Views |-> tiktokViews, Uses |-> tiktokUses, Growth |-> tiktokGrowth],
         AppleMusic |-> [Plays |-> applePlays, Listeners |-> appleListeners,
                         Growth |-> appleGrowth]]

\* GeneratePlatformStats(tokenID, registeredAt) called when the wall clock
\* shows clock: seed := int64(tokenID); time.Since(registeredAt) = clock - registeredAt
GeneratePlatformStatsClockSeeded(tokenID, registeredAt, clock) ==
    PlatformStatsFrom(tokenID + clock, clock - registeredAt)

GeneratePlatformStats(tokenID, registeredAt, clock) ==
    PlatformStatsFrom(tokenID, clock - registeredAt)

-----------------------------------------------------------------------------
(* GenerateEstimatedReach *)

RECURSIVE Pow2Floor(_)
\* the largest power of two that is at most n, for n >= 1
Pow2Floor(n) == IF n < 2 THEN 1 ELSE 2 * Pow2Floor(n \div 2)

\* uint64(float64(total) * 0.7).  The float64 nearest to 0.7 lies 0.4 * 2^-53
\* below it, so the product lies a little below total * 0.7.  When total * 0.7
\* is no whole number the truncation is its floor.  When it is a whole number
\* N the product is rounded to the nearest float64, which is N itself while
\* N < 1.75 * 2^k (2^k the power of two at or below N) and the float64 just
\* below N otherwise; the truncation is then N - 1.
TimesPoint7Rounded(total) == RoundDiv(7 * total, 10)

TimesPoint7(total) ==
    IF (7 * total) % 10 # 0 THEN (7 * total) \div 10
    ELSE LET N == (7 * total) \div 10
         IN  IF N > 0 /\ 4 * N > 7 * Pow2Floor(N) THEN N - 1 ELSE N

\* total := stats.Spotify.Listeners + stats.TikTok.Views/10 + stats.AppleMusic.Listeners
ReachTotal(stats) ==
    stats.Spotify.Listeners + (stats.TikTok.Views \div 10) + stats.AppleMusic.Listeners

GenerateEstimatedReach(stats) == TimesPoint7(ReachTotal(stats))

-----------------------------------------------------------------------------
(* GenerateTier *)

GenerateTierJuniorFirst(totalWorks, totalEarnings100) ==
    IF ~ (totalWorks >= 5 \/ totalEarnings100 >= 500) THEN "Registered Creator"
    ELSE IF ~ (totalWorks >= 10 \/ totalEarnings100 >= 2000) THEN "Verified Creator"
    ELSE IF ~ (totalWorks >= 20 /\ totalEarnings100 >= 5000) THEN "Established Creator"
    ELSE IF ~ (totalWorks >= 50 /\ totalEarnings100 >= 10000) THEN "Rising Star"
    ELSE "Legendary Creator"

GenerateTier(totalWorks, totalEarnings100) ==
    IF totalWorks >= 50 \/ totalEarnings100 >= 10000 THEN "Legendary Creator"
    ELSE IF totalWorks >= 20 \/ totalEarnings100 >= 5000 THEN "Rising Star"
    ELSE IF totalWorks >= 10 \/ totalEarnings100 >= 2000 THEN "Established Creator"
    ELSE IF totalWorks >= 5 \/ totalEarnings100 >= 500 THEN "Verified Creator"
    ELSE "Registered Creator"

-----------------------------------------------------------------------------
(* Calls of the pure functions *)

NoCall == [op |-> "none"]

CallGenerateViralScore ==
    /\ call = NoCall
    /\ \E p \in CountSamples, v \in CountSamples, l \in CountSamples, a \in AgeSamples :
          call' = [op |-> "GenerateViralScore", playCount |-> p, viewCount |-> v,
                   listenerCount |-> l, daysSince |-> a,
                   ret |-> GenerateViralScore(p, v, l, a)]
    /\ UNCHANGED <<now, music, run1, run2, campaigns, royalties, suggestions, resp, svcVars>>

CallGenerateROI ==
    /\ call = NoCall
    /\ \E f \in FundingSamples, r \in RiskSamples, a \in AgeSamples :
          call' = [op |-> "GenerateROI", fundingPercentage |-> f, riskScore |-> r,
                   daysSince |-> a, ret |-> GenerateROI(f, r, a)]
    /\ UNCHANGED <<now, music, run1, run2, campaigns, royalties, suggestions, resp, svcVars>>

CallGenerateTrendingRank ==
    /\ call = NoCall
    /\ \E score \in ScoreSamples, total \in PopulationSamples :
          call' = [op |-> "GenerateTrendingRank", viralScore |-> score,
                   totalSongs |-> total, ret |-> GenerateTrendingRank(score, total)]
    /\ UNCHANGED <<now, music, run1, run2, campaigns, royalties, suggestions, resp, svcVars>>

CallGenerateRiskScore ==
    /\ call = NoCall
    /\ \E f \in RiskFundingSamples, c \in ContributorSamples, r \in ReputationSamples :
          call' = [op |-> "GenerateRiskScore", fundingPercentage |-> f,
                   contributorCount |-> c, creatorReputation |-> r,
                   ret |-> GenerateRiskScore(f, c, r)]
    /\ UNCHANGED <<now, music, run1, run2, campaigns, royalties, suggestions, resp, svcVars>>

\* CALL calculate_risk_score(p_campaign_id) for a campaign with the given
\* funding progress, contributor count and number of works of its creator;
\* ret is the risk_score the procedure stores
CallCalculateRiskScore ==
    /\ call = NoCall
    /\ \E f \in ProgressSamples, c \in ContributorSamples, r \in ReputationSamples :
          call' = [op |-> "calculate_risk_score", v_funding_progress |-> f,
                   v_contributors |-> c, v_creator_reputation |-> r,
                   ret |-> calculate_risk_score(f, c, r)]
    /\ UNCHANGED <<now, music, run1, run2, campaigns, royalties, suggestions, resp, svcVars>>

\* a PlatformStats value with the three fields GenerateEstimatedReach reads
StatsOf(spotifyListeners, tiktokViews, appleListeners) ==
    [Spotify |-> [Plays |-> 0, Listeners |-> spotifyListeners, Growth |-> 0],
     TikTok |-> [Views |-> tiktokViews, Uses |-> 0, Growth |-> 0],
     AppleMusic |-> [Plays |-> 0, Listeners |-> appleListeners, Growth |-> 0]]

CallGenerateEstimatedReach ==
    /\ call = NoCall
    /\ \E a \in ListenerSamples, b \in ViewSamples, c \in ListenerSamples :
          call' = [op |-> "GenerateEstimatedReach", stats |-> StatsOf(a, b, c),
                   ret |-> GenerateEstimatedReach(StatsOf(a, b, c))]
    /\ UNCHANGED <<now, music, run1, run2, campaigns, royalties, suggestions, resp, svcVars>>

CallGenerateTier ==
    /\ call = NoCall
    /\ \E w \in WorkSamples, e \in EarningSamples :
          call' = [op |-> "GenerateTier", totalWorks |-> w, totalEarningsEth |-> e,
                   ret |-> GenerateTier(w, e)]
    /\ UNCHANGED <<now, music, run1, run2, campaigns, royalties, suggestions, resp, svcVars>>

\* one call of GeneratePlatformStats(tokenID, registeredAt) at the clock's
\* present reading
CallGeneratePlatformStatsOnce ==
    /\ call = NoCall
    /\ \E tokenID \in TokenIDs, registeredAt \in OneShotRegisteredAtSamples :
          call' = [op |-> "GeneratePlatformStats", tokenID |-> tokenID,
                   registeredAt |-> registeredAt, at |-> now,
                   ret |-> GeneratePlatformStats(tokenID, registeredAt, now)]
    /\ UNCHANGED <<now, music, run1, run2, campaigns, royalties, suggestions, resp, svcVars>>

-----------------------------------------------------------------------------
(* The wall clock and the platform statistics *)

Tick ==
    /\ now < MaxNow
    /\ now' = now + 1
    /\ UNCHANGED <<call, music, run1, run2, campaigns, royalties, suggestions, resp, svcVars>>

StatsRun(tokenID, registeredAt) ==
    [op |-> "GeneratePlatformStats", tokenID |-> tokenID, registeredAt |-> registeredAt,
     at |-> now, ret |-> GeneratePlatformStats(tokenID, registeredAt, now)]

\* a caller of the package invokes GeneratePlatformStats directly
CallGeneratePlatformStats ==
    /\ \E tokenID \in TokenIDs, registeredAt \in RegisteredAtSamples :
          /\ run2' = StatsRun(tokenID, registeredAt)
          /\ run1' = run2
    /\ UNCHANGED <<call, now, music, campaigns, royalties, suggestions, resp, svcVars>>

\* AnalyticsHandler.GetPlatformStats: GET /api/v1/analytics/:tokenId/platform-stats.
\* A token without a music row is answered 404 and nothing is generated.
GetPlatformStats ==
    /\ \E tokenID \in TokenIDs :
          \/ /\ \E m \in music : m.token_id = tokenID
             /\ LET m == CHOOSE row \in music : row.token_id = tokenID
                IN  /\ run2' = StatsRun(tokenID, m.registered_at)
                    /\ run1' = run2
          \/ /\ ~ \E m \in music : m.token_id = tokenID
             /\ UNCHANGED <<run1, run2>>
    /\ UNCHANGED <<call, now, music, campaigns, royalties, suggestions, resp, svcVars>>

-----------------------------------------------------------------------------
(* ReinvestmentService.GetSuggestions and the campaigns it reads *)

CampaignRow(id, token, creator, status, risk, roi) ==
    [campaign_id |-> id, token_id |-> token, creator_address |-> creator,
     status |-> status, risk_score |-> risk, estimated_roi |-> roi]

\* CampaignHandler.CreateCampaign: the mock campaign id is always 1 and
\* campaign_id is a unique index, so a second insert fails (HTTP 500); the
\* columns risk_score and estimated_roi take their defaults 50 and 150.00
CreateCampaign ==
    /\ \E tokenID \in TokenIDs \cup {3}, creator \in Addresses :
          \/ /\ ~ \E c \in campaigns : c.campaign_id = 1
             /\ campaigns' = campaigns \cup
                    {CampaignRow(1, tokenID, creator, "active", 50, 15000)}
          \/ /\ \E c \in campaigns : c.campaign_id = 1
             /\ UNCHANGED campaigns
    /\ UNCHANGED <<call, now, music, run1, run2, royalties, suggestions, resp, svcVars>>

\* SUM(amount) of royalty_distributions JOIN music_metadata ON token_id
\* WHERE music_metadata.creator_address = userAddress
RECURSIVE SumAmounts(_)
SumAmounts(rows) ==
    IF rows = {} THEN 0
    ELSE LET r == CHOOSE x \in rows : TRUE
         IN  r.amount + SumAmounts(rows \ {r})

TotalEarnings(userAddress) ==
    SumAmounts({r \in royalties :
                  \E m \in music : /\ m.token_id = r.token_id
                                   /\ m.creator_address = userAddress})

\* JOIN music_metadata ON campaigns.token_id = music_metadata.token_id
JoinsMusic(c) == \E m \in music : m.token_id = c.token_id

\* Where("campaigns.status = ? AND campaigns.risk_score < ?", "active", 70)
WhereInclusive(c) == c.status = "active" /\ c.risk_score <= 70

WhereAnyStatus(c) == c.risk_score < 70

Where(c) == c.status = "active" /\ c.risk_score < 70

\* Order("campaigns.estimated_roi DESC, campaigns.risk_score ASC"): a sorts
\* strictly before b
OrderAscending(a, b) ==
    \/ a.estimated_roi < b.estimated_roi
    \/ a.estimated_roi = b.estimated_roi /\ a.risk_score < b.risk_score

OrderROIOnly(a, b) == a.estimated_roi > b.estimated_roi

Order(a, b) ==
    \/ a.estimated_roi > b.estimated_roi
    \/ a.estimated_roi = b.estimated_roi /\ a.risk_score < b.risk_score

\* every order of the rows the ORDER BY allows; rows equal in both keys come
\* in any order
RECURSIVE Ordered(_)
Ordered(rows) ==
    IF rows = {} THEN {<<>>}
    ELSE UNION { { <<first>> \o rest : rest \in Ordered(rows \ {first}) } :
                 first \in {c \in rows : \A other \in rows : ~ Order(other, c)} }

\* Limit(5)
LimitSix(rows) == IF Len(rows) > 6 THEN SubSeq(rows, 1, 6) ELSE rows

Limit(rows) == IF Len(rows) > 5 THEN SubSeq(rows, 1, 5) ELSE rows

\* the result sets the campaign query may scan
QueryCampaigns ==
    { Limit(rows) : rows \in Ordered({c \in campaigns : JoinsMusic(c) /\ Where(c)}) }

\* fmt.Sprintf("High ROI potential (%.1f%%) with low risk score (%d/100).
\* Currently %.0f%% funded.", camp.EstimatedROI, camp.RiskScore, 75.0): the
\* three numbers the text carries, the ROI in tenths
Reasoning(camp) ==
    [roi |-> RoundDiv(camp.estimated_roi, 10), risk |-> camp.risk_score, funded |-> 75]

SuggestedPool(camp) ==
    [CampaignID |-> camp.campaign_id, TokenID |-> camp.token_id,
     EstimatedROI |-> camp.estimated_roi, RiskScore |-> camp.risk_score,
     Reasoning |-> Reasoning(camp)]

RECURSIVE TotalROI(_)
TotalROI(rows) ==
    IF rows = <<>> THEN 0 ELSE Head(rows).estimated_roi + TotalROI(Tail(rows))

\* avgROI := totalROI / float64(len(suggestions)), 0 for an empty batch; in
\* units of 1/60 of a hundredth, which is exact for one to five entries
AvgUnit == 60

AvgROIOverCap(rows) ==
    IF Len(rows) > 0 THEN TotalROI(rows) * (AvgUnit \div 5) ELSE 0

AvgROI(rows) ==
    IF Len(rows) > 0 THEN TotalROI(rows) * (AvgUnit \div Len(rows)) ELSE 0

\* s.db.Create(suggestion): one more row in reinvestment_suggestions
CreateSuggestionPerUser(table, row) ==
    SelectSeq(table, LAMBDA old : old.user_address # row.user_address) \o <<row>>

CreateSuggestion(table, row) == Append(table, row)

GetSuggestions ==
    /\ Len(suggestions) < MaxSuggestions
    /\ \E userAddress \in Addresses, rows \in QueryCampaigns :
          LET availableFunds == TotalEarnings(userAddress)
              pools == [i \in 1..Len(rows) |-> SuggestedPool(rows[i])]
              poolIDs == [i \in 1..Len(rows) |-> rows[i].campaign_id]
              avgROI == AvgROI(rows)
          IN  /\ suggestions' = CreateSuggestion(suggestions,
                     [id |-> Len(suggestions) + 1, user_address |-> userAddress,
                      available_funds |-> availableFunds, suggested_pools |-> poolIDs,
                      expected_roi |-> RoundDiv(avgROI, AvgUnit),
                      reasoning |-> Len(pools), is_actioned |-> FALSE,
                      created_at |-> now])
              /\ resp' = [op |-> "GetSuggestions", UserAddress |-> userAddress,
                          AvailableFunds |-> availableFunds, SuggestedPools |-> pools,
                          TotalExpectedROI |-> avgROI, err |-> "nil"]
    /\ UNCHANGED <<call, now, music, run1, run2, campaigns, royalties, svcVars>>

-----------------------------------------------------------------------------
\* goroutines serving requests
Procs == {1, 2}

Idle == [pc |-> "idle"]

\* empty service tables, no call in flight
ServicesIdle ==
    /\ distSubmissions = <<>>
    /\ platformDistributions = <<>>
    /\ analytics = {}
    /\ notifications = {}
    /\ notificationSeq = 0
    /\ preferences = {}
    /\ procs = [p \in Procs |-> Idle]
    /\ out = NoCall

Init ==
    /\ call = NoCall
    /\ now = 0
    /\ music = {}
    /\ run1 = NoCall
    /\ run2 = NoCall
    /\ campaigns = {}
    /\ royalties = {}
    /\ suggestions = <<>>
    /\ resp = NoCall
    /\ ServicesIdle

Next ==
    \/ CallGenerateViralScore
    \/ CallGenerateROI
    \/ CallGenerateTrendingRank
    \/ CallGenerateRiskScore
    \/ CallGeneratePlatformStatsOnce
    \/ CallGenerateEstimatedReach
    \/ CallGenerateTier
    \/ CallCalculateRiskScore

Spec == Init /\ [][Next]_vars

\* the stored music: token 1 always, token 2 possibly, each registered at a
\* sample time; token_id is a unique index
MusicTables ==
    { {[token_id |-> 1, creator_address |-> "0xA", registered_at |-> r1]} : r1 \in RegisteredAtSamples }
    \cup
    { {[token_id |-> 1, creator_address |-> "0xA", registered_at |-> r1],
       [token_id |-> 2, creator_address |-> "0xB", registered_at |-> r2]} :
         r1 \in RegisteredAtSamples, r2 \in RegisteredAtSamples }

InitStats ==
    /\ call = NoCall
    /\ now = 0
    /\ music \in MusicTables
    /\ run1 = NoCall
    /\ run2 = NoCall
    /\ campaigns = {}
    /\ royalties = {}
    /\ suggestions = <<>>
    /\ resp = NoCall
    /\ ServicesIdle

NextStats ==
    \/ Tick
    \/ CallGeneratePlatformStats
    \/ GetPlatformStats

SpecStats == InitStats /\ [][NextStats]_vars

\* stored campaigns: tokens 1 and 2 have music, token 3 has none
ThreeCandidates ==
    {CampaignRow(1, 1, "0xA", "active", 10, 20000),
     CampaignRow(2, 2, "0xB", "active", 5, 18000),
     CampaignRow(3, 1, "0xA", "active", 60, 22000)}

BoundaryCandidates ==
    {CampaignRow(2, 1, "0xA", "active", 69, 30000),
     CampaignRow(3, 1, "0xA", "active", 70, 29000),
     CampaignRow(4, 2, "0xB", "successful", 10, 28000),
     CampaignRow(5, 2, "0xB", "cancelled", 20, 27000),
     CampaignRow(6, 3, "0xB", "active", 30, 26000),
     CampaignRow(7, 2, "0xB", "active", 100, 25000)}

ManyCandidates ==
    {CampaignRow(2, 1, "0xA", "active", 10, 30000),
     CampaignRow(3, 1, "0xA", "active", 5, 30000),
     CampaignRow(4, 2, "0xB", "active", 20, 25000),
     CampaignRow(5, 2, "0xB", "active", 20, 25000),
     CampaignRow(6, 1, "0xA", "active", 0, 20025),
     CampaignRow(7, 2, "0xB", "active", 50, 15000),
     CampaignRow(8, 2, "0xB", "active", 69, 12000),
     CampaignRow(9, 2, "0xB", "failed", 0, 30000)}

CampaignStatuses == {"active", "successful", "failed", "cancelled"}

\* two campaigns, each with any status, a risk score on either side of the
\* threshold and one of two ROI values
PairCandidates ==
    { {CampaignRow(2, 1, "0xA", s2, r2, e2), CampaignRow(3, 2, "0xB", s3, r3, e3)} :
        s2 \in CampaignStatuses, r2 \in {69, 70}, e2 \in {15000, 22000},
        s3 \in CampaignStatuses, r3 \in {69, 70}, e3 \in {15000, 22000} }

CampaignTables ==
    {{}, ThreeCandidates, BoundaryCandidates, ManyCandidates} \cup PairCandidates

InitReinvest ==
    /\ call = NoCall
    /\ now = 0
    /\ music = {[token_id |-> 1, creator_address |-> "0xA", registered_at |-> 0],
                [token_id |-> 2, creator_address |-> "0xB", registered_at |-> 0]}
    /\ run1 = NoCall
    /\ run2 = NoCall
    /\ campaigns \in CampaignTables
    /\ royalties = {[id |-> 1, token_id |-> 1, amount |-> 100],
                    [id |-> 2, token_id |-> 1, amount |-> 50],
                    [id |-> 3, token_id |-> 3, amount |-> 30]}
    /\ suggestions = <<>>
    /\ resp = NoCall
    /\ ServicesIdle

NextReinvest ==
    \/ CreateCampaign
    \/ GetSuggestions

SpecReinvest == InitReinvest /\ [][NextReinvest]_vars

-----------------------------------------------------------------------------
(* DistributionService.SubmitDistribution, one database statement a step *)

\* the other state, which the services below leave alone
scoringVars == <<call, run1, run2, campaigns, royalties, suggestions, resp>>

\* req.Platforms
PlatformLists == {<<>>, <<"spotify">>, <<"spotify", "tiktok">>}

\* First(&existing) WHERE token_id = ? AND status NOT IN ('failed', 'cancelled')
\* finds a row
ActiveSubmission(tokenID) ==
    \E i \in DOMAIN distSubmissions :
        /\ distSubmissions[i].token_id = tokenID
        /\ distSubmissions[i].status \notin {"failed", "cancelled"}

\* the request arrives and the music row is looked up: "music not found"
\* ends the call
SubmitBegin(p) ==
    /\ procs[p].pc = "idle"
    /\ \E tokenID \in TokenIDs \cup {3}, user \in Addresses, platforms \in PlatformLists :
          LET req == [TokenID |-> tokenID, UserAddress |-> user, Platforms |-> platforms]
          IN  \/ /\ \E m \in music : m.token_id = tokenID
                 /\ procs' = [procs EXCEPT ![p] =
                                 [pc |-> "check", op |-> "SubmitDistribution", req |-> req]]
              \/ /\ ~ \E m \in music : m.token_id = tokenID
                 /\ procs' = [procs EXCEPT ![p] =
                                 [pc |-> "done", op |-> "SubmitDistribution", req |-> req,
                                  err |-> "music not found", created |-> 0, platforms |-> 0]]
    /\ UNCHANGED <<now, music, scoringVars, distSubmissions, platformDistributions,
                   analytics, notifications, notificationSeq, preferences, out>>

\* "Check if already submitted"
SubmitCheck(p) ==
    /\ procs[p].pc = "check"
    /\ procs[p].op = "SubmitDistribution"
    /\ \/ /\ ActiveSubmission(procs[p].req.TokenID)
          /\ procs' = [procs EXCEPT ![p] =
                          [pc |-> "done", op |-> "SubmitDistribution", req |-> procs[p].req,
                           err |-> "distribution already submitted for this track",
                           created |-> 0, platforms |-> 0]]
       \/ /\ ~ ActiveSubmission(procs[p].req.TokenID)
          /\ procs' = [procs EXCEPT ![p].pc = "create"]
    /\ UNCHANGED <<now, music, scoringVars, distSubmissions, platformDistributions,
                   analytics, notifications, notificationSeq, preferences, out>>

\* s.db.Create(submission): token_id carries a plain index, nothing rejects
\* a second row for the token
SubmitCreate(p) ==
    /\ procs[p].pc = "create"
    /\ procs[p].op = "SubmitDistribution"
    /\ distSubmissions' = Append(distSubmissions,
           [id |-> Len(distSubmissions) + 1, token_id |-> procs[p].req.TokenID,
            user_address |-> procs[p].req.UserAddress,
            platforms |-> procs[p].req.Platforms, status |-> "processing"])
    /\ procs' = [procs EXCEPT ![p] =
                    [pc |-> "platforms", op |-> "SubmitDistribution", req |-> procs[p].req,
                     created |-> Len(distSubmissions) + 1, platforms |-> 0]]
    /\ UNCHANGED <<now, music, scoringVars, platformDistributions, analytics,
                   notifications, notificationSeq, preferences, out>>

\* for _, platform := range req.Platforms { s.db.Create(platformDist) }, one
\* round of the loop, and the return after the last
SubmitPlatform(p) ==
    /\ procs[p].pc = "platforms"
    /\ \/ /\ procs[p].platforms < Len(procs[p].req.Platforms)
          /\ platformDistributions' = Append(platformDistributions,
                 [token_id |-> procs[p].req.TokenID,
                  platform |-> procs[p].req.Platforms[procs[p].platforms + 1],
                  status |-> "pending"])
          /\ procs' = [procs EXCEPT ![p].platforms = @ + 1]
       \/ /\ procs[p].platforms = Len(procs[p].req.Platforms)
          /\ procs' = [procs EXCEPT ![p] =
                          [pc |-> "done", op |-> "SubmitDistribution", req |-> procs[p].req,
                           err |-> "", created |-> procs[p].created,
                           platforms |-> procs[p].platforms]]
          /\ UNCHANGED platformDistributions
    /\ UNCHANGED <<now, music, scoringVars, distSubmissions, analytics, notifications,
                   notificationSeq, preferences, out>>

\* the stored music and the submissions the calls start from: none, or one
\* that was marked failed for token 1
InitDistribution ==
    /\ call = NoCall
    /\ now = 0
    /\ music = {[token_id |-> 1, creator_address |-> "0xA", registered_at |-> 0],
                [token_id |-> 2, creator_address |-> "0xB", registered_at |-> 0]}
    /\ run1 = NoCall
    /\ run2 = NoCall
    /\ campaigns = {}
    /\ royalties = {}
    /\ suggestions = <<>>
    /\ resp = NoCall
    /\ distSubmissions \in {<<>>, <<[id |-> 1, token_id |-> 1, user_address |-> "0xA",
                                     platforms |-> <<"spotify">>, status |-> "failed"]>>}
    /\ platformDistributions = <<>>
    /\ analytics = {}
    /\ notifications = {}
    /\ notificationSeq = 0
    /\ preferences = {}
    /\ procs = [p \in Procs |-> Idle]
    /\ out = NoCall

NextDistribution ==
    \E p \in Procs :
        \/ SubmitBegin(p)
        \/ SubmitCheck(p)
        \/ SubmitCreate(p)
        \/ SubmitPlatform(p)

SpecDistribution == InitDistribution /\ [][NextDistribution]_vars

-----------------------------------------------------------------------------
(* MusicService.RegisterMusic, one database statement or outside call a step *)

\* what s.fingerprint.Generate(req.AudioData) returns: a hash, or "" with an
\* error; package fingerprint computes it from the audio bytes alone
FingerprintOutcomes == {"", "0xf1", "0xf2"}

\* the unique indexes of music_metadata on token_id and on fingerprint_hash
\* reject the row
MusicUniqueViolationTokenOnly(row) ==
    \E m \in music : m.token_id = row.token_id

MusicUniqueViolation(row) ==
    \E m \in music : m.token_id = row.token_id \/ m.fingerprint_hash = row.fingerprint_hash

\* the result of a finished call
Finished(p, err) ==
    [pc |-> "done", op |-> procs[p].op, req |-> procs[p].req, err |-> err,
     known |-> procs[p].known, savedMusic |-> procs[p].savedMusic,
     savedAnalytics |-> procs[p].savedAnalytics]

\* Step 1: the request arrives and its fingerprint is generated.  known
\* records whether the fingerprint is registered at that moment.
RegisterBegin(p) ==
    /\ procs[p].pc = "idle"
    /\ \E creator \in Addresses, fingerprintHash \in FingerprintOutcomes :
          LET this == [pc |-> "check", op |-> "RegisterMusic",
                       req |-> [CreatorAddress |-> creator,
                                fingerprintHash |-> fingerprintHash],
                       known |-> \E m \in music : m.fingerprint_hash = fingerprintHash,
                       savedMusic |-> FALSE, savedAnalytics |-> FALSE]
          IN  procs' = [procs EXCEPT ![p] =
                           IF fingerprintHash = ""
                           THEN [this EXCEPT !.pc = "done"] @@
                                [err |-> "failed to generate fingerprint"]
                           ELSE this]
    /\ UNCHANGED <<now, music, scoringVars, distSubmissions, platformDistributions,
                   analytics, notifications, notificationSeq, preferences, out>>

\* Step 2: Where("fingerprint_hash = ?", fingerprintHash).First(&existingMusic)
RegisterCheck(p) ==
    /\ procs[p].pc = "check"
    /\ procs[p].op = "RegisterMusic"
    /\ \/ /\ \E m \in music : m.fingerprint_hash = procs[p].req.fingerprintHash
          /\ procs' = [procs EXCEPT ![p] = Finished(p, "music already registered")]
       \/ /\ ~ \E m \in music : m.fingerprint_hash = procs[p].req.fingerprintHash
          /\ procs' = [procs EXCEPT ![p].pc = "upload"]
    /\ UNCHANGED <<now, music, scoringVars, distSubmissions, platformDistributions,
                   analytics, notifications, notificationSeq, preferences, out>>

\* Steps 3 and 4: s.ipfs.UploadJSON(metadata) fails or succeeds; after it
\* tokenID := uint64(time.Now().Unix())
RegisterUpload(p) ==
    /\ procs[p].pc = "upload"
    /\ \/ procs' = [procs EXCEPT ![p] = Finished(p, "failed to upload to IPFS")]
       \/ procs' = [procs EXCEPT ![p] = [pc |-> "save", tokenID |-> now] @@ procs[p]]
    /\ UNCHANGED <<now, music, scoringVars, distSubmissions, platformDistributions,
                   analytics, notifications, notificationSeq, preferences, out>>

\* Step 5: s.db.Create(musicMetadata)
RegisterSave(p) ==
    /\ procs[p].pc = "save"
    /\ LET row == [token_id |-> procs[p].tokenID,
                   creator_address |-> procs[p].req.CreatorAddress,
                   fingerprint_hash |-> procs[p].req.fingerprintHash,
                   registered_at |-> now]
       IN  \/ /\ MusicUniqueViolation(row)
              /\ procs' = [procs EXCEPT ![p] = Finished(p, "failed to save to database")]
              /\ UNCHANGED music
           \/ /\ ~ MusicUniqueViolation(row)
              /\ music' = music \cup {row}
              /\ procs' = [procs EXCEPT ![p].pc = "analytics", ![p].savedMusic = TRUE]
    /\ UNCHANGED <<now, scoringVars, distSubmissions, platformDistributions, analytics,
                   notifications, notificationSeq, preferences, out>>

\* Step 6: s.db.Create(analytics), its error ignored; analytics.token_id has
\* a unique index
RegisterAnalytics(p) ==
    /\ procs[p].pc = "analytics"
    /\ \/ /\ \E a \in analytics : a.token_id = procs[p].tokenID
          /\ UNCHANGED analytics
          /\ procs' = [procs EXCEPT ![p] = Finished(p, "") @@ [tokenID |-> procs[p].tokenID]]
       \/ /\ ~ \E a \in analytics : a.token_id = procs[p].tokenID
          /\ analytics' = analytics \cup
                 {[id |-> Cardinality(analytics) + 1, token_id |-> procs[p].tokenID]}
          /\ procs' = [procs EXCEPT ![p] =
                          [Finished(p, "") EXCEPT !.savedAnalytics = TRUE] @@
                          [tokenID |-> procs[p].tokenID]]
    /\ UNCHANGED <<now, music, scoringVars, distSubmissions, platformDistributions,
                   notifications, notificationSeq, preferences, out>>

\* the handler has answered; the goroutine takes the next request
Return(p) ==
    /\ procs[p].pc = "done"
    /\ procs' = [procs EXCEPT ![p] = Idle]
    /\ UNCHANGED <<now, music, scoringVars, distSubmissions, platformDistributions,
                   analytics, notifications, notificationSeq, preferences, out>>

\* the clock of time.Now().Unix() moves on a second
Second ==
    /\ now < MaxSeconds
    /\ now' = now + 1
    /\ UNCHANGED <<music, scoringVars, svcVars>>

InitRegister == Init

NextRegister ==
    \/ Second
    \/ \E p \in Procs :
          \/ RegisterBegin(p)
          \/ RegisterCheck(p)
          \/ RegisterUpload(p)
          \/ RegisterSave(p)
          \/ RegisterAnalytics(p)
          \/ Return(p)

SpecRegister == InitRegister /\ [][NextRegister]_vars

-----------------------------------------------------------------------------
(* NotificationService: every method is one statement, or a lookup followed *)
(* by one insert or update                                                  *)

\* Where("id = ? AND user_address = ?", notificationID, userAddress)
OwnedAnyUser(n, notificationID, userAddress) == n.id = notificationID

Owned(n, notificationID, userAddress) ==
    n.id = notificationID /\ n.user_address = userAddress

NotificationIDs == 1 .. MaxNotifications + 1

CreateNotification ==
    /\ notificationSeq < MaxNotifications
    /\ \E userAddress \in Addresses :
          /\ notifications' = notifications \cup
                 {[id |-> notificationSeq + 1, user_address |-> userAddress,
                   is_read |-> FALSE]}
          /\ out' = [op |-> "CreateNotification", user |-> userAddress,
                     id |-> notificationSeq + 1, err |-> ""]
    /\ notificationSeq' = notificationSeq + 1
    /\ UNCHANGED <<now, music, scoringVars, distSubmissions, platformDistributions,
                   analytics, preferences, procs>>

\* Count of Where("user_address = ? AND is_read = ?", userAddress, false)
UnreadCount(userAddress) ==
    Cardinality({n \in notifications : n.user_address = userAddress /\ ~ n.is_read})

GetUnreadCount ==
    /\ \E userAddress \in Addresses :
          out' = [op |-> "GetUnreadCount", user |-> userAddress,
                  ret |-> UnreadCount(userAddress), err |-> ""]
    /\ UNCHANGED <<now, music, scoringVars, distSubmissions, platformDistributions,
                   analytics, notifications, notificationSeq, preferences, procs>>

\* Update("is_read", true) on the rows of the Where; RowsAffected == 0 gives
\* "notification not found".  MySQL counts the rows it changed: a row that is
\* read already counts only if its updated_at moves, so either answer can
\* come back for it.
MarkAsRead ==
    /\ \E notificationID \in NotificationIDs, userAddress \in Addresses :
          LET hit == {n \in notifications : Owned(n, notificationID, userAddress)}
          IN  /\ notifications' = (notifications \ hit) \cup
                                  {[n EXCEPT !.is_read = TRUE] : n \in hit}
              /\ \E err \in {"", "notification not found"} :
                    /\ err = "" => hit # {}
                    /\ err # "" => \A n \in hit : n.is_read
                    /\ out' = [op |-> "MarkAsRead", user |-> userAddress,
                               id |-> notificationID, err |-> err]
    /\ UNCHANGED <<now, music, scoringVars, distSubmissions, platformDistributions,
                   analytics, notificationSeq, preferences, procs>>

MarkAllAsRead ==
    /\ \E userAddress \in Addresses :
          /\ notifications' =
                 {IF n.user_address = userAddress /\ ~ n.is_read
                  THEN [n EXCEPT !.is_read = TRUE] ELSE n : n \in notifications}
          /\ out' = [op |-> "MarkAllAsRead", user |-> userAddress, err |-> ""]
    /\ UNCHANGED <<now, music, scoringVars, distSubmissions, platformDistributions,
                   analytics, notificationSeq, preferences, procs>>

DeleteNotification ==
    /\ \E notificationID \in NotificationIDs, userAddress \in Addresses :
          LET hit == {n \in notifications : Owned(n, notificationID, userAddress)}
          IN  /\ notifications' = notifications \ hit
              /\ out' = [op |-> "DeleteNotification", user |-> userAddress,
                         id |-> notificationID,
                         err |-> IF hit = {} THEN "notification not found" ELSE ""]
    /\ UNCHANGED <<now, music, scoringVars, distSubmissions, platformDistributions,
                   analytics, notificationSeq, preferences, procs>>

PrefKeys == {"email_notifications", "royalty_alerts", "contribution_alerts",
             "milestone_alerts", "marketing_emails"}

\* the `default:` tags of NotificationPreference
ColumnDefault ==
    [email_notifications |-> TRUE, royalty_alerts |-> TRUE, contribution_alerts |-> TRUE,
     milestone_alerts |-> TRUE, marketing_emails |-> FALSE]

\* the values GetPreferences sets for a user without a row
DefaultPreferences ==
    [email_notifications |-> TRUE, royalty_alerts |-> TRUE, contribution_alerts |-> TRUE,
     milestone_alerts |-> TRUE, marketing_emails |-> FALSE]

\* gorm's Create: a field with a `default:` tag that holds its zero value
\* (false) is written with the default instead
CreateValues(values) ==
    [k \in PrefKeys |-> IF values[k] = FALSE THEN ColumnDefault[k] ELSE values[k]]

HasPreferences(userAddress) == \E row \in preferences : row.user_address = userAddress

StoredPreferences(userAddress) ==
    (CHOOSE row \in preferences : row.user_address = userAddress).values

GetPreferences ==
    /\ \E userAddress \in Addresses :
          \/ /\ HasPreferences(userAddress)
             /\ out' = [op |-> "GetPreferences", user |-> userAddress,
                        ret |-> StoredPreferences(userAddress), err |-> ""]
             /\ UNCHANGED preferences
          \/ /\ ~ HasPreferences(userAddress)
             /\ preferences' = preferences \cup
                    {[user_address |-> userAddress,
                      values |-> CreateValues(DefaultPreferences)]}
             /\ out' = [op |-> "GetPreferences", user |-> userAddress,
                        ret |-> CreateValues(DefaultPreferences), err |-> ""]
    /\ UNCHANGED <<now, music, scoringVars, distSubmissions, platformDistributions,
                   analytics, notifications, notificationSeq, procs>>

\* the prefs maps of the requests: every map over two of the keys, and maps
\* that name all five
PrefMaps ==
    UNION { [keys -> BOOLEAN] : keys \in SUBSET {"email_notifications", "marketing_emails"} }
    \cup {[k \in PrefKeys |-> FALSE], [k \in PrefKeys |-> TRUE]}
    \cup [{"royalty_alerts"} -> BOOLEAN]

\* existing with the keys of prefs overwritten
Overwritten(existing, prefs) ==
    [k \in PrefKeys |-> IF k \in DOMAIN prefs THEN prefs[k] ELSE existing[k]]

\* s.db.Save(&existing): an UPDATE of every column for a row that was found,
\* a Create for the new struct, whose primary key is zero
UpdatePreferences ==
    /\ \E userAddress \in Addresses, prefs \in PrefMaps :
          /\ \/ /\ HasPreferences(userAddress)
                /\ preferences' =
                       {IF row.user_address = userAddress
                        THEN [row EXCEPT !.values = Overwritten(row.values, prefs)]
                        ELSE row : row \in preferences}
             \/ /\ ~ HasPreferences(userAddress)
                /\ preferences' = preferences \cup
                       {[user_address |-> userAddress,
                         values |-> CreateValues(
                                        Overwritten([k \in PrefKeys |-> FALSE], prefs))]}
          /\ out' = [op |-> "UpdatePreferences", user |-> userAddress, prefs |-> prefs,
                     err |-> ""]
    /\ UNCHANGED <<now, music, scoringVars, distSubmissions, platformDistributions,
                   analytics, notifications, notificationSeq, procs>>

InitNotify == Init

NextNotify ==
    \/ CreateNotification
    \/ GetUnreadCount
    \/ MarkAsRead
    \/ MarkAllAsRead
    \/ DeleteNotification

SpecNotify == InitNotify /\ [][NextNotify]_vars

InitPreferences == Init

NextPreferences ==
    \/ GetPreferences
    \/ UpdatePreferences

SpecPreferences == InitPreferences /\ [][NextPreferences]_vars

-----------------------------------------------------------------------------
(* Properties *)

BothRuns == run1.op = "GeneratePlatformStats" /\ run2.op = "GeneratePlatformStats"

\* time.Since(registeredAt) of a run, in ticks
RunAge(run) == run.at - run.registeredAt

\* C1, as stated: two calls of GeneratePlatformStats with the same token id
\* and the same registration time return the same PlatformStats, whenever
\* they are made.
C1_SameAtEveryCallTime ==
    (BothRuns /\ run1.tokenID = run2.tokenID /\ run1.registeredAt = run2.registeredAt)
        => run1.ret = run2.ret

\* C1, amended: for a fixed token id and registration time the growth
\* percentages and the TikTok uses are the same at every call time, and the
\* whole PlatformStats is the same at any two call times at which the elapsed
\* time is the same or is below one day at both; the wall clock enters only
\* through the age.
C1_ClockOnlyThroughAge ==
    (BothRuns /\ run1.tokenID = run2.tokenID /\ run1.registeredAt = run2.registeredAt)
        => /\ run1.ret.Spotify.Growth = run2.ret.Spotify.Growth
           /\ run1.ret.TikTok.Growth = run2.ret.TikTok.Growth
           /\ run1.ret.TikTok.Uses = run2.ret.TikTok.Uses
           /\ run1.ret.AppleMusic.Growth = run2.ret.AppleMusic.Growth
           /\ (\/ RunAge(run1) = RunAge(run2)
               \/ RunAge(run1) < TicksPerDay /\ RunAge(run2) < TicksPerDay)
                 => run1.ret = run2.ret

\* two calls for the same work at different times within its first day
C1_Witness ==
    /\ BothRuns
    /\ run1.tokenID = run2.tokenID
    /\ run1.registeredAt = run2.registeredAt
    /\ run1.at # run2.at
    /\ RunAge(run1) >= 0
    /\ RunAge(run2) < TicksPerDay
    /\ run1.ret = run2.ret

IsViralCall == call.op = "GenerateViralScore"

\* the score of the call's metrics at another age
ViralScoreAt(ticks) ==
    GenerateViralScore(call.playCount, call.viewCount, call.listenerCount, ticks)

\* C3, as stated: for any fixed metrics the viral score at age 40 is at least
\* the viral score at age 10.
C3_Age40AtLeastAge10 ==
    (IsViralCall /\ call.daysSince = Days(40)) => call.ret >= ViralScoreAt(Days(10))

\* C3, amended: the viral score at age 40 is at least the score at age 10 for
\* metrics whose every count is either 0 or large enough for its sub-score to
\* stay capped at age 40 (plays >= 40000, views >= 80000, listeners >= 20000).
C3_Age40AtLeastAge10WhenSaturated ==
    (/\ IsViralCall
     /\ call.daysSince = Days(40)
     /\ call.playCount = 0 \/ call.playCount >= 40000
     /\ call.viewCount = 0 \/ call.viewCount >= 80000
     /\ call.listenerCount = 0 \/ call.listenerCount >= 20000)
        => call.ret >= ViralScoreAt(Days(10))

\* plays and listeners capped, no views: 70 points at age 40, 56.67 at age 10
C3_Witness ==
    /\ IsViralCall
    /\ call.daysSince = Days(40)
    /\ call.playCount = 40000
    /\ call.viewCount = 0
    /\ call.listenerCount = 20000
    /\ call.ret = 7000
    /\ ViralScoreAt(Days(10)) = 5667

\* C4: GenerateViralScore returns a value in [0, 100] for every count and
\* every age, zero, negative and very large ages included.
C4_ViralScoreInRange ==
    IsViralCall => (call.ret >= 0 /\ call.ret <= 10000)

\* a negative age with every channel saturated: 30 + 30 + 20 + 0.67
C4_Witness ==
    /\ IsViralCall
    /\ call.daysSince < 0
    /\ call.playCount = 5000000
    /\ call.viewCount = 5000000
    /\ call.listenerCount = 5000000
    /\ call.ret = 8067

IsROICall == call.op = "GenerateROI"

ROICallOf(funding100, riskScore, ticks) ==
    /\ IsROICall
    /\ call.fundingPercentage = funding100
    /\ call.riskScore = riskScore
    /\ call.daysSince = ticks

\* C5, as stated: GenerateROI(0, 100, 0) returns 80, the floor.
C5_FloorAtWorstCase == ROICallOf(0, 100, 0) => call.ret = 8000

\* C5, amended: GenerateROI(0, 100, 0) returns 100 (150 + 0 - 50 + 0); the
\* floor of 80 is not reached.
C5_WorstCaseIs100 == ROICallOf(0, 100, 0) => call.ret = 10000

C5_Witness == ROICallOf(0, 100, 0) /\ call.ret > 8000

\* C6, as stated: GenerateROI(100, 0, 365) returns 300, the ceiling.
C6_CeilingAtBestCase == ROICallOf(10000, 0, Days(365)) => call.ret = 30000

\* C6, amended: GenerateROI(100, 0, 365) returns 250 (150 + 50 - 0 + 50); the
\* ceiling of 300 is not reached.
C6_BestCaseIs250 == ROICallOf(10000, 0, Days(365)) => call.ret = 25000

C6_Witness == ROICallOf(10000, 0, Days(365)) /\ call.ret < 30000

\* C7: GenerateROI(100, 0, 150) returns 250, and for every funding ratio and
\* risk the result at an age of 150 days or more equals the result at 150 days.
C7_TimeFactorSaturatesAt150 ==
    /\ ROICallOf(10000, 0, Days(150)) => call.ret = 25000
    /\ (IsROICall /\ call.daysSince >= Days(150))
          => call.ret = GenerateROI(call.fundingPercentage, call.riskScore, Days(150))

\* an age beyond 150 days whose result is not clamped: 150 + 37.5 - 25 + 50
C7_Witness == ROICallOf(7500, 50, Days(365)) /\ call.ret = 21250

\* C8: GenerateROI returns a value in [80, 300] for every funding ratio >= 0,
\* over-funded campaigns included, every risk score and every age.
C8_ROIInRange == IsROICall => (call.ret >= 8000 /\ call.ret <= 30000)

\* an over-funded campaign held at the ceiling
C8_Witness ==
    /\ IsROICall
    /\ call.fundingPercentage = 40000
    /\ call.riskScore = 0
    /\ call.daysSince = 0
    /\ call.ret = 30000

IsBatch == resp.op = "GetSuggestions"

\* the (campaign id, ROI, risk) of the entries of the last batch, in order
BatchKeys ==
    [i \in 1..Len(resp.SuggestedPools) |->
        <<resp.SuggestedPools[i].CampaignID, resp.SuggestedPools[i].EstimatedROI,
          resp.SuggestedPools[i].RiskScore>>]

\* C9, as stated: of three candidates with ROI {200, 180, 220} and risk
\* {10, 5, 60} the batch leaves out the risk-60 candidate and returns the
\* other two by ROI descending.
C9_Risk60Excluded ==
    (IsBatch /\ campaigns = ThreeCandidates)
        => BatchKeys = << <<1, 20000, 10>>, <<2, 18000, 5>> >>

\* C9, amended: of three active candidates with ROI {200, 180, 220} and risk
\* {10, 5, 60} the batch holds all three, risk 60 being below the threshold
\* of 70, by ROI descending: 220/60, 200/10, 180/5.
C9_AllThreeByROI ==
    (IsBatch /\ campaigns = ThreeCandidates)
        => BatchKeys = << <<3, 22000, 60>>, <<1, 20000, 10>>, <<2, 18000, 5>> >>

C9_Witness ==
    /\ IsBatch
    /\ campaigns = ThreeCandidates
    /\ Len(resp.SuggestedPools) = 3
    /\ Len(suggestions) > 0

\* C10: every entry of a batch GetSuggestions returns is a campaign whose
\* status is "active" and whose risk score is below 70; a campaign with risk
\* 70 or more, or with another status, is in no batch.
C10_BatchOnlyActiveBelow70 ==
    [][ (resp' # resp) =>
          LET pools == resp'.SuggestedPools
          IN  /\ \A i \in 1..Len(pools) :
                    /\ pools[i].RiskScore < 70
                    /\ \E c \in campaigns : /\ c.campaign_id = pools[i].CampaignID
                                            /\ c.status = "active"
                                            /\ c.risk_score < 70
              /\ \A c \in campaigns :
                    (c.status # "active" \/ c.risk_score >= 70)
                        => \A i \in 1..Len(pools) : pools[i].CampaignID # c.campaign_id
      ]_vars

\* with a risk-69 and a risk-70 campaign stored, the batch holds the first only
C10_Witness ==
    /\ IsBatch
    /\ campaigns = BoundaryCandidates
    /\ Len(resp.SuggestedPools) = 1
    /\ resp.SuggestedPools[1].RiskScore = 69

\* C11: the entries of a batch are ordered by estimated ROI descending and,
\* at equal ROI, by risk score ascending: of two adjacent entries a before b,
\* ROI(a) > ROI(b), or ROI(a) = ROI(b) and risk(a) <= risk(b).
C11_BatchOrderedByROIThenRisk ==
    IsBatch =>
        \A i \in 1..(Len(resp.SuggestedPools) - 1) :
            LET a == resp.SuggestedPools[i]
                b == resp.SuggestedPools[i + 1]
            IN  \/ a.EstimatedROI > b.EstimatedROI
                \/ a.EstimatedROI = b.EstimatedROI /\ a.RiskScore <= b.RiskScore

\* two entries of equal ROI, the safer one first, and a strictly lower ROI after them
C11_Witness ==
    /\ IsBatch
    /\ Len(resp.SuggestedPools) = 5
    /\ resp.SuggestedPools[1].EstimatedROI = resp.SuggestedPools[2].EstimatedROI
    /\ resp.SuggestedPools[1].RiskScore < resp.SuggestedPools[2].RiskScore
    /\ resp.SuggestedPools[2].EstimatedROI > resp.SuggestedPools[3].EstimatedROI

\* a step in which GetSuggestions answers: every call adds a suggestion row
SuggestionsServed == suggestions' # suggestions

\* the ids of the campaigns in the batch just returned
NewBatchIDs ==
    {resp'.SuggestedPools[i].CampaignID : i \in 1..Len(resp'.SuggestedPools)}

\* the batch just returned is the top of the ranking of the campaigns in pool
TopOfRanking(pool) ==
    /\ Len(resp'.SuggestedPools) <= 5
    /\ Len(resp'.SuggestedPools) = Min(5, Cardinality(pool))
    /\ \A c \in pool :
          c.campaign_id \notin NewBatchIDs
             => \A i \in 1..Len(resp'.SuggestedPools) :
                   c.estimated_roi <= resp'.SuggestedPools[i].EstimatedROI

\* C12, as stated: a batch holds at most 5 entries, exactly min(5, number of
\* eligible campaigns), eligible meaning status "active" and risk below 70,
\* and no eligible campaign left out has a strictly higher ROI than an entry.
C12_TopFiveOfActiveBelow70 ==
    [][ SuggestionsServed =>
          TopOfRanking({c \in campaigns : c.status = "active" /\ c.risk_score < 70})
      ]_vars

\* C12, amended: a batch holds at most 5 entries, exactly min(5, number of
\* eligible campaigns), where an eligible campaign has status "active", risk
\* below 70 and a music_metadata row for its token; no eligible campaign left
\* out has a strictly higher ROI than an entry.
C12_TopFiveOfJoinedActiveBelow70 ==
    [][ SuggestionsServed =>
          TopOfRanking({c \in campaigns :
                          /\ c.status = "active"
                          /\ c.risk_score < 70
                          /\ \E m \in music : m.token_id = c.token_id})
      ]_vars

\* seven eligible campaigns stored, five returned
C12_Witness ==
    /\ IsBatch
    /\ campaigns = ManyCandidates
    /\ Len(resp.SuggestedPools) = 5
    /\ Len(suggestions) > 0

RECURSIVE SumPoolROI(_)
SumPoolROI(pools) ==
    IF pools = <<>> THEN 0 ELSE Head(pools).EstimatedROI + SumPoolROI(Tail(pools))

\* C13: the average ROI of a batch is the arithmetic mean of the estimated
\* ROI of the returned entries (average * count = sum); a call that finds no
\* eligible campaign returns 0 entries and average 0 without an error.
C13_AverageIsMeanOfBatch ==
    [][ SuggestionsServed =>
          /\ resp'.err = "nil"
          /\ resp'.TotalExpectedROI * Len(resp'.SuggestedPools)
                = SumPoolROI(resp'.SuggestedPools) * AvgUnit
          /\ (~ \E c \in campaigns : /\ c.status = "active"
                                     /\ c.risk_score < 70
                                     /\ \E m \in music : m.token_id = c.token_id)
                => /\ resp'.SuggestedPools = <<>>
                   /\ resp'.TotalExpectedROI = 0
      ]_vars

\* campaigns are stored but none is eligible: an empty batch, average 0
C13_Witness ==
    /\ IsBatch
    /\ campaigns # {}
    /\ resp.SuggestedPools = <<>>
    /\ resp.TotalExpectedROI = 0
    /\ resp.err = "nil"
    /\ Len(suggestions) > 0

\* C14, as stated: a call of GetSuggestions changes no stored data.
C14_GetSuggestionsChangesNothing ==
    [][ (resp' # resp) =>
          UNCHANGED <<music, campaigns, royalties, suggestions>> ]_vars

\* C14, amended: GetSuggestions is not pure; each call appends exactly one
\* row to reinvestment_suggestions and leaves the earlier suggestion rows and
\* the campaigns, music and royalty rows as they were.
C14_GetSuggestionsOnlyAppendsARow ==
    [][ (resp' # resp \/ suggestions' # suggestions) =>
          /\ UNCHANGED <<music, campaigns, royalties>>
          /\ Len(suggestions') = Len(suggestions) + 1
          /\ SubSeq(suggestions', 1, Len(suggestions)) = suggestions
          /\ suggestions'[Len(suggestions')].user_address = resp'.UserAddress
      ]_vars

\* two calls have left two rows
C14_Witness ==
    /\ IsBatch
    /\ Len(suggestions) = 2
    /\ suggestions[2].user_address = resp.UserAddress

IsRankCall == call.op = "GenerateTrendingRank"

\* C15: GenerateTrendingRank returns 0 for every viral score below 60,
\* whatever the total population.
C15_BelowSixtyNotTrending ==
    (IsRankCall /\ call.viralScore < 6000) => call.ret = 0

\* 59.99 points in a population of 1000
C15_Witness ==
    /\ IsRankCall
    /\ call.viralScore = 5999
    /\ call.totalSongs = 1000
    /\ call.ret = 0

\* floor((100 - score) / 5) + 1 raised to at least 1, as the claim words it
ClaimedCandidateRank(score100) == Max(((10000 - score100) \div 500) + 1, 1)

\* C16: for a score >= 60 the result is candidateRank = max(floor((100 -
\* score)/5) + 1, 1) when candidateRank <= totalPopulation/5 and 0 otherwise;
\* every non-zero rank r has 1 <= r <= totalPopulation/5, and no result is
\* negative.
C16_RankWithinTopFifth ==
    IsRankCall =>
        /\ call.viralScore >= 6000 =>
              call.ret = IF 5 * ClaimedCandidateRank(call.viralScore) <= call.totalSongs
                         THEN ClaimedCandidateRank(call.viralScore)
                         ELSE 0
        /\ call.ret >= 0
        /\ call.ret # 0 => (1 <= call.ret /\ 5 * call.ret <= call.totalSongs)

\* a score above 100 in a population of 5: the candidate rank is raised to 1
C16_Witness ==
    /\ IsRankCall
    /\ call.viralScore = 11000
    /\ call.totalSongs = 5
    /\ call.ret = 1

\* the rank of another score in the population of the call
RankAt(score100) == GenerateTrendingRank(score100, call.totalSongs)

\* C17, as stated: of two scores s1 > s2 that both get a non-zero rank in the
\* same population, rank(s1) is lower than rank(s2).
C17_HigherScoreStrictlyLowerRank ==
    (IsRankCall /\ call.ret # 0) =>
        \A s2 \in ScoreSamples :
            (s2 < call.viralScore /\ RankAt(s2) # 0) => call.ret < RankAt(s2)

\* C17, amended: of two scores s1 > s2 that both get a non-zero rank in the
\* same population, rank(s1) is lower than or equal to rank(s2); scores in
\* the same band of 5 points share a rank.
C17_HigherScoreNoHigherRank ==
    (IsRankCall /\ call.ret # 0) =>
        \A s2 \in ScoreSamples :
            (s2 < call.viralScore /\ RankAt(s2) # 0) => call.ret <= RankAt(s2)

\* 95 points rank 2, while 90 rank 3 and 94.99 rank 2 as well
C17_Witness ==
    /\ IsRankCall
    /\ call.viralScore = 9500
    /\ call.totalSongs = 1000
    /\ call.ret = 2
    /\ RankAt(9000) = 3
    /\ RankAt(9499) = 2

IsRiskCall == call.op = "GenerateRiskScore"

RiskCallOf(funding100, contributorCount, creatorReputation) ==
    /\ IsRiskCall
    /\ call.fundingPercentage = funding100
    /\ call.contributorCount = contributorCount
    /\ call.creatorReputation = creatorReputation

\* C18: GenerateRiskScore returns an integer in [0, 100] for every funding
\* ratio, contributor count and creator reputation.
C18_RiskInRange == IsRiskCall => (call.ret >= 0 /\ call.ret <= 100)

\* a negative funding ratio is held at 100
C18_Witness == RiskCallOf(-5000, 0, 0) /\ call.ret = 100

\* C19: GenerateRiskScore(100, 1000, 1000) = 0, and each factor saturates on
\* its own: GenerateRiskScore(f, c, r) = GenerateRiskScore(min(f, 100),
\* min(c, 50), min(r, 10)) for all inputs.
C19_FactorsSaturate ==
    /\ RiskCallOf(10000, 1000, 1000) => call.ret = 0
    /\ IsRiskCall =>
          call.ret = GenerateRiskScore(Min(call.fundingPercentage, 10000),
                                       Min(call.contributorCount, 50),
                                       Min(call.creatorReputation, 10))

\* an over-funded campaign with 1000 contributors and no reputation: 100 - 40 - 30
C19_Witness == RiskCallOf(40000, 1000, 0) /\ call.ret = 30

\* C20: whenever at least one of funding ratio, contributor count and
\* creator reputation is zero the risk is not 0, also with the other two
\* factors saturated.
C20_ZeroFactorLeavesRisk ==
    (/\ IsRiskCall
     /\ \/ call.fundingPercentage = 0
        \/ call.contributorCount = 0
        \/ call.creatorReputation = 0)
        => call.ret # 0

\* no funding, the other two factors saturated: 100 - 30 - 30
C20_Witness == RiskCallOf(0, 1000, 1000) /\ call.ret = 40

IsStatsCall == call.op = "GeneratePlatformStats"

\* C21: any age below 1 day, zero and negative ages included, is treated as
\* exactly 1 day: GenerateViralScore(p, v, l, a) = GenerateViralScore(p, v, l, 1)
\* for every a < 1, GeneratePlatformStats for an entity registered less than
\* a day ago or in the future returns what it returns at age 1, and the age
\* divided by is never below 1 day.
C21_AgeBelowOneDayIsOneDay ==
    /\ (IsViralCall /\ call.daysSince < TicksPerDay)
          => /\ call.ret = ViralScoreAt(Days(1))
             /\ ViralDaysSince(call.daysSince) = Days(1)
    /\ IsViralCall => ViralDaysSince(call.daysSince) >= Days(1)
    /\ (IsStatsCall /\ RunAge(call) < TicksPerDay)
          => call.ret = PlatformStatsFrom(call.tokenID, Days(1))
    /\ IsStatsCall => StatsDaysSince(RunAge(call)) >= Days(1)

\* statistics asked for a work registered one tick ago
C21_Witness ==
    /\ IsStatsCall
    /\ RunAge(call) = 1
    /\ call.ret = PlatformStatsFrom(call.tokenID, Days(1))
    /\ call.ret # PlatformStatsFrom(call.tokenID, Days(2))

IsReachCall == call.op = "GenerateEstimatedReach"

\* seven times the total of the call: total * 0.7 in tenths
ReachTenths ==
    7 * (call.stats.Spotify.Listeners + (call.stats.TikTok.Views \div 10)
         + call.stats.AppleMusic.Listeners)

AllMetricsZero ==
    /\ call.stats.Spotify.Listeners = 0
    /\ call.stats.TikTok.Views = 0
    /\ call.stats.AppleMusic.Listeners = 0

\* C22, as stated: GenerateEstimatedReach returns round(total * 0.7) where
\* total = channel A listeners + channel B views / 10 + channel C listeners;
\* the result is never negative and is 0 when all metrics are 0.
C22_ReachIsRounded ==
    IsReachCall =>
        /\ call.ret = RoundDiv(ReachTenths, 10)
        /\ call.ret >= 0
        /\ AllMetricsZero => call.ret = 0

\* C22, amended: GenerateEstimatedReach returns total * 0.7 truncated to an
\* integer, never rounded up: the floor of total * 0.7, or one less than
\* total * 0.7 in some cases where that product is a whole number; the
\* result is never negative and is 0 when all metrics are 0.
C22_ReachIsTruncated ==
    IsReachCall =>
        /\ ReachTenths % 10 # 0 => call.ret = ReachTenths \div 10
        /\ ReachTenths % 10 = 0 =>
              (call.ret = ReachTenths \div 10 \/ call.ret = (ReachTenths \div 10) - 1)
        /\ call.ret >= 0
        /\ AllMetricsZero => call.ret = 0

\* a total of 4 (25 views count for 2): 2.8 becomes 2
C22_Witness ==
    /\ IsReachCall
    /\ call.stats.Spotify.Listeners = 1
    /\ call.stats.TikTok.Views = 25
    /\ call.stats.AppleMusic.Listeners = 1
    /\ call.ret = 2

IsTierCall == call.op = "GenerateTier"

\* works >= w or earnings >= e ETH, for the call's arguments
Reaches(w, e) == call.totalWorks >= w \/ call.totalEarningsEth >= 100 * e

\* C23: GenerateTier is an ordered cascade where the most senior matching
\* tier wins and either dimension alone promotes: works >= 50 or earnings >=
\* 100 is Legendary; else works >= 20 or earnings >= 50 is Rising Star; else
\* works >= 10 or earnings >= 20 is Established; else works >= 5 or earnings
\* >= 5 is Verified; otherwise Registered.  Every input gets exactly one of
\* the five tiers.
C23_TierCascade ==
    IsTierCall =>
        /\ call.ret \in {"Legendary Creator", "Rising Star", "Established Creator",
                         "Verified Creator", "Registered Creator"}
        /\ call.ret = "Legendary Creator" <=> Reaches(50, 100)
        /\ call.ret = "Rising Star" <=> (~ Reaches(50, 100) /\ Reaches(20, 50))
        /\ call.ret = "Established Creator" <=> (~ Reaches(20, 50) /\ Reaches(10, 20))
        /\ call.ret = "Verified Creator" <=> (~ Reaches(10, 20) /\ Reaches(5, 5))
        /\ call.ret = "Registered Creator" <=> ~ Reaches(5, 5)

\* five works and 100 ETH: the earnings alone give the most senior tier
C23_Witness ==
    /\ IsTierCall
    /\ call.totalWorks = 5
    /\ call.totalEarningsEth = 10000
    /\ call.ret = "Legendary Creator"

\* the counts that scale with the growth factor, and the listener counts
\* derived from them, are in b at least what they are in a
CountsNoLower(a, b) ==
    /\ a.Spotify.Plays <= b.Spotify.Plays
    /\ a.Spotify.Listeners <= b.Spotify.Listeners
    /\ a.TikTok.Views <= b.TikTok.Views
    /\ a.AppleMusic.Plays <= b.AppleMusic.Plays
    /\ a.AppleMusic.Listeners <= b.AppleMusic.Listeners

\* the age GeneratePlatformStats works with, a day at least
AgeUsed(ticks) == IF ticks < Days(1) THEN Days(1) ELSE ticks

\* C24: for a fixed token id a greater age never gives a smaller growth
\* factor, and so never a smaller Spotify play, TikTok view or Apple Music
\* play count nor a smaller listener count derived from them; this between
\* any two runs for the same id and between the latest run and every greater
\* sample age.
C24_CountsGrowWithAge ==
    /\ (BothRuns /\ run1.tokenID = run2.tokenID /\ RunAge(run1) <= RunAge(run2))
          => /\ GrowthFactor(AgeUsed(RunAge(run1))) <= GrowthFactor(AgeUsed(RunAge(run2)))
             /\ CountsNoLower(run1.ret, run2.ret)
    /\ run2.op = "GeneratePlatformStats"
          => \A a \in AgeSamples :
                a >= RunAge(run2)
                   => /\ GrowthFactor(AgeUsed(RunAge(run2))) <= GrowthFactor(AgeUsed(a))
                      /\ CountsNoLower(run2.ret, PlatformStatsFrom(run2.tokenID, a))

\* the same work at one day and later at three days, with more plays
C24_Witness ==
    /\ BothRuns
    /\ run1.tokenID = run2.tokenID
    /\ RunAge(run1) = Days(1)
    /\ RunAge(run2) = Days(3)
    /\ run1.ret.Spotify.Plays < run2.ret.Spotify.Plays
    /\ run1.ret.TikTok.Views < run2.ret.TikTok.Views

\* the submissions of a token that are neither failed nor cancelled
ActiveSubmissionsOf(tokenID) ==
    {i \in DOMAIN distSubmissions :
        /\ distSubmissions[i].token_id = tokenID
        /\ distSubmissions[i].status \notin {"failed", "cancelled"}}

\* C25: after any interleaving of concurrent SubmitDistribution calls for a
\* token at most one DistributionSubmission whose status is not 'failed' or
\* 'cancelled' exists for it, and a call that finds such a submission
\* returns an error and creates neither a submission nor a platform
\* distribution record.
C25_AtMostOneActiveSubmission ==
    /\ \A tokenID \in TokenIDs : Cardinality(ActiveSubmissionsOf(tokenID)) <= 1
    /\ \A p \in Procs :
          (/\ procs[p].pc = "done"
           /\ procs[p].err = "distribution already submitted for this track")
              => (procs[p].created = 0 /\ procs[p].platforms = 0)

\* the analytics rows of a token
AnalyticsOf(tokenID) == {a \in analytics : a.token_id = tokenID}

\* a RegisterMusic call has saved the music row of the token and has its
\* analytics insert still ahead
BetweenSaveAndAnalytics(tokenID) ==
    \E p \in Procs : procs[p].pc = "analytics" /\ procs[p].tokenID = tokenID

OnDocumentedDomain ==
    /\ IsROICall
    /\ call.fundingPercentage >= 0
    /\ call.fundingPercentage <= 10000
    /\ call.riskScore <= 100
    /\ call.daysSince >= 0

\* base + fundingBonus - riskPenalty + timeFactor of the call, before the
\* clamp, in units of 1 / ROIDen
UnclampedROI ==
    BaseROI + FundingBonus(call.fundingPercentage) - RiskPenalty(call.riskScore)
    + TimeFactor(call.daysSince)

\* C27: for every funding ratio in [0, 100], every risk score in [0, 100] and
\* every age >= 0 the unclamped ROI lies in [100, 250]; there the floor of 80
\* and the ceiling of 300 are never reached and the result is the unclamped
\* value.
C27_ClampIdleOnDocumentedDomain ==
    OnDocumentedDomain =>
        /\ UnclampedROI >= 10000 * ROIDen
        /\ UnclampedROI <= 25000 * ROIDen
        /\ call.ret = RoundDiv(UnclampedROI, ROIDen)
        /\ call.ret >= 10000
        /\ call.ret <= 25000

\* the top of the domain, a fully funded campaign without risk after 1000 days
C27_Witness == ROICallOf(10000, 0, Days(1000)) /\ call.ret = 25000

\* C28: the risk score stored by the SQL procedure calculate_risk_score
\* equals GenerateRiskScore for every campaign state: every funding
\* percentage, over-funded ones above 100% included, every contributor count
\* and every work count of the creator.
C28_ProcedureAgreesWithGenerateRiskScore ==
    call.op = "calculate_risk_score"
        => call.ret = GenerateRiskScore(call.v_funding_progress, call.v_contributors,
                                        call.v_creator_reputation)

\* a notification service call has just completed
NotificationCall == out' # out \/ notifications' # notifications

\* the notifications of the users other than userAddress, in a table
OthersIn(table, userAddress) == {n \in table : n.user_address # userAddress}

\* C29: no notification operation invoked with user address U changes a
\* notification of another user; MarkAsRead and DeleteNotification with an
\* id that does not exist or belongs to another user return 'notification
\* not found' and leave every notification unchanged; MarkAllAsRead(U)
\* changes only U's notifications and GetUnreadCount(U) is 0 after it.
C29_OnlyOwnNotificationsChange ==
    [][NotificationCall =>
          /\ OthersIn(notifications', out'.user) = OthersIn(notifications, out'.user)
          /\ (/\ out'.op \in {"MarkAsRead", "DeleteNotification"}
              /\ ~ \E n \in notifications :
                      n.id = out'.id /\ n.user_address = out'.user)
                => (out'.err = "notification not found" /\ notifications' = notifications)
          /\ out'.op = "MarkAllAsRead"
                => ~ \E n \in notifications' :
                        n.user_address = out'.user /\ ~ n.is_read ]_vars

\* 0xB asked to delete notification 1 of 0xA, which is still there, unread,
\* next to an unread one of 0xB
C29_Witness ==
    /\ out.op = "DeleteNotification"
    /\ out.user = "0xB"
    /\ out.id = 1
    /\ out.err = "notification not found"
    /\ [id |-> 1, user_address |-> "0xA", is_read |-> FALSE] \in notifications
    /\ \E n \in notifications : n.user_address = "0xB" /\ ~ n.is_read

\* what GetPreferences(userAddress) returns from a preferences table
PreferencesIn(table, userAddress) ==
    IF \E row \in table : row.user_address = userAddress
    THEN (CHOOSE row \in table : row.user_address = userAddress).values
    ELSE DefaultPreferences

\* C30: after UpdatePreferences(user, prefs) succeeds GetPreferences(user)
\* returns the given value for every key in prefs and, for every other key,
\* the value it had before, which for a user without stored preferences is
\* the default GetPreferences creates (the alerts and email on, marketing
\* off).
C30_UpdateThenGet ==
    [][(out' # out /\ out'.op = "UpdatePreferences" /\ out'.err = "") =>
          \A k \in PrefKeys :
              PreferencesIn(preferences', out'.user)[k] =
                  IF k \in DOMAIN out'.prefs THEN out'.prefs[k]
                  ELSE PreferencesIn(preferences, out'.user)[k] ]_vars

====
